---- MODULE Spec2Model ----
(***************************************************************************)
(* Model of src/main.py: a Flask service that loads two secrets from       *)
(* Secret Manager into module globals at import time and then answers      *)
(* GET /, GET /health, GET /api/status and unmatched paths.                *)
(***************************************************************************)
EXTENDS Integers, Sequences, FiniteSets, TLC

\* Number of worker threads that handle requests concurrently.
MaxWorkers == 2

Workers == 1..MaxWorkers

(***************************************************************************)
(* Python values: None and str.  bool(x) is Python truthiness.             *)
(***************************************************************************)
None == [t |-> "NoneType", v |-> ""]

Str(s) == [t |-> "str", v |-> s]

Truthy(x) == x.t = "str" /\ x.v # ""

\* Python's `a or b`: a when a is truthy, else b.
Or(a, b) == IF Truthy(a) THEN a ELSE b

SecretNames == {"db-password", "api-key"}

Routes == {"/", "/health", "/api/status", "/nope"}

(***************************************************************************)
(* The process environment.  A key that is not in the environment maps to  *)
(* None; a key may also be set to the empty string.                        *)
(***************************************************************************)
Environments ==
    [GCP_PROJECT_ID : {None, Str(""), Str("proj-a")},
     GOOGLE_CLOUD_PROJECT : {None, Str("proj-b")}]

(***************************************************************************)
(* What secret_client.access_secret_version can do on one call: return a   *)
(* payload (bytes) or raise.  Payload bytes are sequences of 0..255.       *)
(***************************************************************************)
Payloads == { <<112, 119>>, <<>>, <<255>> }

ClientErrors == {"NotFound", "PermissionDenied", "ServiceUnavailable"}

\* Exception classes that `except Exception` catches.
ExceptionSubclasses == ClientErrors \cup {"UnicodeDecodeError"}

Answers ==
    [kind : {"payload"}, data : Payloads, error : {""}]
      \cup [kind : {"raise"}, data : { <<>> }, error : ClientErrors]

\* One character of an ASCII byte (the bytes the model's payloads use).
Chr(b) == IF b = 112 THEN "p" ELSE IF b = 119 THEN "w" ELSE "?"

RECURSIVE DecodeText(_)
DecodeText(bytes) ==
    IF bytes = <<>> THEN "" ELSE Chr(Head(bytes)) \o DecodeText(Tail(bytes))

\* bytes.decode('UTF-8') on the model's payloads, which hold ASCII bytes and
\* 0xFF: ASCII decodes to itself, and 0xFF occurs in no UTF-8 text.
decode(bytes) ==
    IF \E i \in 1..Len(bytes) : bytes[i] >= 128
    THEN [ok |-> FALSE, text |-> "", error |-> "UnicodeDecodeError"]
    ELSE [ok |-> TRUE, text |-> DecodeText(bytes), error |-> ""]

VARIABLES
    environ,      \* os.environ, fixed for the life of the process
    phase,        \* where module execution stands
    DB_PASSWORD,  \* module global, the cache slot of db-password
    API_KEY,      \* module global, the cache slot of api-key
    startup,      \* history: the get_secret calls made by initialize_secrets
    req           \* per worker thread: the request it is handling

vars == <<environ, phase, DB_PASSWORD, API_KEY, startup, req>>

\* os.environ.get(key, default)
environ_get(key, default) ==
    IF environ[key] = None THEN default ELSE environ[key]

\* Faulty variant of get_secret: `except NotFound` in place of
\* `except Exception`, so the other errors leave the function.
get_secret_narrow_except(secret_name, answer) ==
    LET project_id == Or(environ_get("GCP_PROJECT_ID", None),
                         environ_get("GOOGLE_CLOUD_PROJECT", None))
    IN  IF ~Truthy(project_id)
        THEN [ret |-> None, raised |-> FALSE, reached |-> FALSE]
        ELSE IF answer.kind = "raise"
        THEN [ret |-> None, raised |-> answer.error # "NotFound", reached |-> TRUE]
        ELSE IF ~decode(answer.data).ok
        THEN [ret |-> None, raised |-> TRUE, reached |-> TRUE]
        ELSE [ret |-> Str(decode(answer.data).text), raised |-> FALSE, reached |-> TRUE]

\* Faulty variant of get_secret: no `if not project_id` test, so the lookup
\* is made with whatever project id there is.
get_secret_no_project_check(secret_name, answer) ==
    IF answer.kind = "raise"
    THEN [ret |-> None, raised |-> FALSE, reached |-> TRUE]
    ELSE IF ~decode(answer.data).ok
    THEN [ret |-> None, raised |-> FALSE, reached |-> TRUE]
    ELSE [ret |-> Str(decode(answer.data).text), raised |-> FALSE, reached |-> TRUE]

(***************************************************************************)
(* get_secret(secret_name), given what the client does if it is called.    *)
(* ret is the return value, raised whether an exception leaves the         *)
(* function, reached whether access_secret_version was called.             *)
(***************************************************************************)
get_secret(secret_name, answer) ==
    LET project_id == Or(environ_get("GCP_PROJECT_ID", None),
                         environ_get("GOOGLE_CLOUD_PROJECT", None))
    IN  IF ~Truthy(project_id)
        THEN [ret |-> None, raised |-> FALSE, reached |-> FALSE]
        ELSE IF answer.kind = "raise"
        THEN [ret |-> None,
              raised |-> answer.error \notin ExceptionSubclasses,
              reached |-> TRUE]
        ELSE IF ~decode(answer.data).ok
        THEN [ret |-> None,
              raised |-> decode(answer.data).error \notin ExceptionSubclasses,
              reached |-> TRUE]
        ELSE [ret |-> Str(decode(answer.data).text),
              raised |-> FALSE,
              reached |-> TRUE]

\* A get_secret call as a request's history records it: the name asked for
\* and whether the call reached the secret store.
Fetch(secret_name, answer, got) ==
    [name |-> secret_name, reached |-> got.reached]

\* A get_secret call of initialize_secrets as the startup history records it,
\* with the value it returned.
StartupFetch(secret_name, answer, got) ==
    [name |-> secret_name,
     reached |-> got.reached,
     fetched |-> got.reached /\ answer.kind = "payload" /\ decode(answer.data).ok,
     ret |-> got.ret]

Idle ==
    [route |-> "", pc |-> "idle", db_password |-> None, api_key |-> None,
     fetches |-> <<>>, reads |-> {}, resp |-> [code |-> 0]]

Init ==
    /\ environ \in Environments
    /\ phase = "import"
    /\ DB_PASSWORD = None
    /\ API_KEY = None
    /\ startup = <<>>
    /\ req = [w \in Workers |-> Idle]

(***************************************************************************)
(* Module execution: line 8, initialize_secrets, then the server.          *)
(***************************************************************************)
\* secret_client = secretmanager.SecretManagerServiceClient(); an exception
\* here ends the import.
CreateClient ==
    /\ phase = "import"
    /\ \E ok \in BOOLEAN : phase' = IF ok THEN "init_db" ELSE "client_error"
    /\ UNCHANGED <<environ, DB_PASSWORD, API_KEY, startup, req>>

\* DB_PASSWORD = get_secret('db-password')
InitDbPassword ==
    /\ phase = "init_db"
    /\ \E answer \in Answers :
         LET got == get_secret("db-password", answer) IN
         /\ startup' = Append(startup, StartupFetch("db-password", answer, got))
         /\ IF got.raised
            THEN phase' = "init_error" /\ UNCHANGED DB_PASSWORD
            ELSE phase' = "init_api" /\ DB_PASSWORD' = got.ret
    /\ UNCHANGED <<environ, API_KEY, req>>

\* API_KEY = get_secret('api-key'), then the logging of lines 54-62
InitApiKey ==
    /\ phase = "init_api"
    /\ \E answer \in Answers :
         LET got == get_secret("api-key", answer) IN
         /\ startup' = Append(startup, StartupFetch("api-key", answer, got))
         /\ IF got.raised
            THEN phase' = "init_error" /\ UNCHANGED API_KEY
            ELSE phase' = "initialized" /\ API_KEY' = got.ret
    /\ UNCHANGED <<environ, DB_PASSWORD, req>>

\* The import is over: app.run, or the WSGI server that imported the module,
\* starts to hand requests to the handlers.
StartServer ==
    /\ phase = "initialized"
    /\ phase' = "serving"
    /\ UNCHANGED <<environ, DB_PASSWORD, API_KEY, startup, req>>

(***************************************************************************)
(* Request handling.  A worker thread takes a request once the server is   *)
(* up, runs the handler Flask routes it to and keeps the response until it *)
(* takes the next request.  fetches is the list of get_secret calls the    *)
(* request made, reads the set of cache slots its handler read.  The       *)
(* ENVIRONMENT value that the responses echo is left out.                  *)
(***************************************************************************)
\* Faulty variant of Receive: requests are taken while the import still runs.
Receive_before_init(w) ==
    /\ phase \notin {"import", "client_error", "init_error"}
    /\ req[w].pc \in {"idle", "done"}
    /\ \E route \in Routes :
         req' = [req EXCEPT ![w] = [Idle EXCEPT !.route = route, !.pc = "dispatched"]]
    /\ UNCHANGED <<environ, phase, DB_PASSWORD, API_KEY, startup>>

\* A worker takes the next request and Flask routes it.
Receive(w) ==
    /\ phase = "serving"
    /\ req[w].pc \in {"idle", "done"}
    /\ \E route \in Routes :
         req' = [req EXCEPT ![w] = [Idle EXCEPT !.route = route, !.pc = "dispatched"]]
    /\ UNCHANGED <<environ, phase, DB_PASSWORD, API_KEY, startup>>

\* The response of hello's except branch (lines 91-96).
HelloError == [code |-> 500, error |-> "Internal server error"]

\* A request that has returned: its locals are gone.
Returned(r, resp) ==
    [r EXCEPT !.pc = "done", !.db_password = None, !.api_key = None, !.resp = resp]

\* Faulty variant of health_check: healthy only when both secrets are cached.
health_check_needs_cache(w) ==
    /\ req[w].route = "/health"
    /\ req[w].pc = "dispatched"
    /\ req' = [req EXCEPT ![w] =
                 Returned([@ EXCEPT !.reads = {"DB_PASSWORD", "API_KEY"}],
                          IF DB_PASSWORD # None /\ API_KEY # None
                          THEN [code |-> 200, status |-> "healthy", service |-> "flask-app"]
                          ELSE [code |-> 503, status |-> "unhealthy", service |-> "flask-app"])]
    /\ UNCHANGED <<environ, phase, DB_PASSWORD, API_KEY, startup>>

\* GET /health
health_check(w) ==
    /\ req[w].route = "/health"
    /\ req[w].pc = "dispatched"
    /\ req' = [req EXCEPT ![w] =
                 Returned(@, [code |-> 200, status |-> "healthy", service |-> "flask-app"])]
    /\ UNCHANGED <<environ, phase, DB_PASSWORD, API_KEY, startup>>

\* Faulty variant of hello_db: the fallback read is stored in DB_PASSWORD.
hello_db_writeback(w) ==
    /\ req[w].route = "/"
    /\ req[w].pc = "dispatched"
    /\ IF Truthy(DB_PASSWORD)
       THEN /\ req' = [req EXCEPT ![w].db_password = DB_PASSWORD,
                                  ![w].reads = @ \cup {"DB_PASSWORD"},
                                  ![w].pc = "line81"]
            /\ UNCHANGED DB_PASSWORD
       ELSE \E answer \in Answers :
              LET got == get_secret("db-password", answer) IN
              /\ req' = [req EXCEPT ![w].db_password = got.ret,
                                    ![w].reads = @ \cup {"DB_PASSWORD"},
                                    ![w].fetches = Append(@, Fetch("db-password", answer, got)),
                                    ![w].pc = "line81"]
              /\ DB_PASSWORD' = got.ret
    /\ UNCHANGED <<environ, phase, API_KEY, startup>>

\* Faulty variant of hello_db: a request reuses the db-password that another
\* request in flight has already resolved instead of asking for it itself.
hello_db_dedup(w) ==
    /\ req[w].route = "/"
    /\ req[w].pc = "dispatched"
    /\ IF Truthy(DB_PASSWORD)
       THEN req' = [req EXCEPT ![w].db_password = DB_PASSWORD,
                               ![w].reads = @ \cup {"DB_PASSWORD"},
                               ![w].pc = "line81"]
       ELSE IF \E o \in Workers \ {w} : req[o].pc \in {"line81", "line83"}
       THEN \E o \in Workers \ {w} :
              /\ req[o].pc \in {"line81", "line83"}
              /\ req' = [req EXCEPT ![w].db_password = req[o].db_password,
                                    ![w].reads = @ \cup {"DB_PASSWORD"},
                                    ![w].pc = "line81"]
       ELSE \E answer \in Answers :
              LET got == get_secret("db-password", answer) IN
              req' = [req EXCEPT ![w].db_password = got.ret,
                                 ![w].reads = @ \cup {"DB_PASSWORD"},
                                 ![w].fetches = Append(@, Fetch("db-password", answer, got)),
                                 ![w].pc = "line81"]
    /\ UNCHANGED <<environ, phase, DB_PASSWORD, API_KEY, startup>>

\* GET /, line 80: db_password = DB_PASSWORD or get_secret('db-password')
hello_db(w) ==
    /\ req[w].route = "/"
    /\ req[w].pc = "dispatched"
    /\ IF Truthy(DB_PASSWORD)
       THEN req' = [req EXCEPT ![w].db_password = DB_PASSWORD,
                               ![w].reads = @ \cup {"DB_PASSWORD"},
                               ![w].pc = "line81"]
       ELSE \E answer \in Answers :
              LET got == get_secret("db-password", answer)
                  r == [req[w] EXCEPT
                          !.reads = @ \cup {"DB_PASSWORD"},
                          !.fetches = Append(@, Fetch("db-password", answer, got))]
              IN  req' = [req EXCEPT ![w] =
                            IF got.raised
                            THEN Returned(r, HelloError)
                            ELSE [r EXCEPT !.db_password = got.ret, !.pc = "line81"]]
    /\ UNCHANGED <<environ, phase, DB_PASSWORD, API_KEY, startup>>

\* Faulty variant of hello_api: a fallback read that returns None is retried once.
hello_api_retry(w) ==
    /\ req[w].route = "/"
    /\ req[w].pc = "line81"
    /\ IF Truthy(API_KEY)
       THEN req' = [req EXCEPT ![w].api_key = API_KEY,
                               ![w].reads = @ \cup {"API_KEY"},
                               ![w].pc = "line83"]
       ELSE \E answer \in Answers, again \in Answers :
              LET got == get_secret("api-key", answer)
                  got2 == get_secret("api-key", again)
              IN  req' = [req EXCEPT ![w] =
                            IF got.ret # None
                            THEN [@ EXCEPT
                                    !.reads = @ \cup {"API_KEY"},
                                    !.fetches = Append(@, Fetch("api-key", answer, got)),
                                    !.api_key = got.ret, !.pc = "line83"]
                            ELSE [@ EXCEPT
                                    !.reads = @ \cup {"API_KEY"},
                                    !.fetches = @ \o <<Fetch("api-key", answer, got),
                                                       Fetch("api-key", again, got2)>>,
                                    !.api_key = got2.ret, !.pc = "line83"]]
    /\ UNCHANGED <<environ, phase, DB_PASSWORD, API_KEY, startup>>

\* GET /, line 81: api_key = API_KEY or get_secret('api-key')
hello_api(w) ==
    /\ req[w].route = "/"
    /\ req[w].pc = "line81"
    /\ IF Truthy(API_KEY)
       THEN req' = [req EXCEPT ![w].api_key = API_KEY,
                               ![w].reads = @ \cup {"API_KEY"},
                               ![w].pc = "line83"]
       ELSE \E answer \in Answers :
              LET got == get_secret("api-key", answer)
                  r == [req[w] EXCEPT
                          !.reads = @ \cup {"API_KEY"},
                          !.fetches = Append(@, Fetch("api-key", answer, got))]
              IN  req' = [req EXCEPT ![w] =
                            IF got.raised
                            THEN Returned(r, HelloError)
                            ELSE [r EXCEPT !.api_key = got.ret, !.pc = "line83"]]
    /\ UNCHANGED <<environ, phase, DB_PASSWORD, API_KEY, startup>>

\* The flag of the text body: "yes" for the code's check mark, "no" for its cross.
Flag(x) == IF Truthy(x) THEN "yes" ELSE "no"

\* GET /, lines 83-89: the text response
hello_return(w) ==
    /\ req[w].route = "/"
    /\ req[w].pc = "line83"
    /\ req' = [req EXCEPT ![w] =
                 Returned(@, [code |-> 200,
                              db_loaded |-> Flag(req[w].db_password),
                              api_loaded |-> Flag(req[w].api_key)])]
    /\ UNCHANGED <<environ, phase, DB_PASSWORD, API_KEY, startup>>

\* Faulty variant of api_status: bool(X) in place of `X is not None`.
api_status_truthy(w) ==
    /\ req[w].route = "/api/status"
    /\ req[w].pc = "dispatched"
    /\ req' = [req EXCEPT ![w] =
                 Returned([@ EXCEPT !.reads = {"DB_PASSWORD", "API_KEY"}],
                          [code |-> 200,
                           status |-> "operational",
                           db_password |-> Truthy(DB_PASSWORD),
                           api_key |-> Truthy(API_KEY),
                           project_id |-> environ_get("GCP_PROJECT_ID", Str("not-set"))])]
    /\ UNCHANGED <<environ, phase, DB_PASSWORD, API_KEY, startup>>

\* GET /api/status
api_status(w) ==
    /\ req[w].route = "/api/status"
    /\ req[w].pc = "dispatched"
    /\ req' = [req EXCEPT ![w] =
                 Returned([@ EXCEPT !.reads = {"DB_PASSWORD", "API_KEY"}],
                          [code |-> 200,
                           status |-> "operational",
                           db_password |-> DB_PASSWORD # None,
                           api_key |-> API_KEY # None,
                           project_id |-> environ_get("GCP_PROJECT_ID", Str("not-set"))])]
    /\ UNCHANGED <<environ, phase, DB_PASSWORD, API_KEY, startup>>

\* The 404 handler, for a path no route matches
not_found(w) ==
    /\ req[w].route \notin {"/", "/health", "/api/status"}
    /\ req[w].pc = "dispatched"
    /\ req' = [req EXCEPT ![w] = Returned(@, [code |-> 404, error |-> "Not Found"])]
    /\ UNCHANGED <<environ, phase, DB_PASSWORD, API_KEY, startup>>

Next ==
    \/ CreateClient
    \/ InitDbPassword
    \/ InitApiKey
    \/ StartServer
    \/ \E w \in Workers : Receive(w)
    \/ \E w \in Workers : health_check(w)
    \/ \E w \in Workers : hello_db(w)
    \/ \E w \in Workers : hello_api(w)
    \/ \E w \in Workers : hello_return(w)
    \/ \E w \in Workers : api_status(w)
    \/ \E w \in Workers : not_found(w)

Spec == Init /\ [][Next]_vars

\* A step of the handler that worker w is in.
HandlerStep(w) ==
    \/ health_check(w)
    \/ hello_db(w)
    \/ hello_api(w)
    \/ hello_return(w)
    \/ api_status(w)
    \/ not_found(w)

\* Every worker thread that is inside a handler gets to run.
Fairness == \A w \in Workers : WF_vars(HandlerStep(w))

\* The environments of the fair specification: no project id, or one named
\* by GCP_PROJECT_ID.  Scheduling does not depend on which variable names it.
FairInit ==
    /\ Init
    /\ environ.GOOGLE_CLOUD_PROJECT = None
    /\ environ.GCP_PROJECT_ID # Str("")

FairSpec == FairInit /\ [][Next]_vars /\ Fairness

(***************************************************************************)
(* Vocabulary of the properties.                                           *)
(***************************************************************************)
Done(w, route) == req[w].pc = "done" /\ req[w].route = route

\* The names of the get_secret calls of a list that reached the secret store.
ReachedNames(fetches) ==
    [i \in {j \in 1..Len(fetches) : fetches[j].reached} |-> fetches[i].name]

ReachedCount(fetches, name) ==
    Cardinality({i \in 1..Len(fetches) : fetches[i].reached /\ fetches[i].name = name})

\* The request of worker w made a fallback read of `name` that reached the store.
FallbackReached(w, name) == ReachedCount(req[w].fetches, name) > 0

\* The startup fetch of `name` got a value from the secret store.
StartupFetched(name) ==
    \E i \in 1..Len(startup) : startup[i].name = name /\ startup[i].fetched

ProjectConfigured ==
    Truthy(environ.GCP_PROJECT_ID) \/ Truthy(environ.GOOGLE_CLOUD_PROJECT)

Initialized == phase \in {"initialized", "serving"}

InHello(w) == req[w].route = "/" /\ req[w].pc \in {"dispatched", "line81", "line83"}

\* C1: once initialize_secrets has completed, no step of any request changes
\* DB_PASSWORD or API_KEY: a value stays, and an absent slot stays absent even
\* when a fallback read succeeds.
C1_CacheFrozenAfterInit ==
    [][Initialized => (DB_PASSWORD' = DB_PASSWORD /\ API_KEY' = API_KEY)]_vars

\* C1 witness: a GET / completed whose fallback read of db-password succeeded,
\* the db-password slot is still absent and the api-key slot holds its value.
C1_Witness ==
    /\ phase = "serving"
    /\ DB_PASSWORD = None
    /\ API_KEY = Str("pw")
    /\ \E w \in Workers :
         /\ Done(w, "/")
         /\ FallbackReached(w, "db-password")
         /\ req[w].resp.db_loaded = "yes"

\* C2: GET /api/status calls the secret store never, and each boolean is
\* whether the startup fetch of that name got a value.
C2_StatusIsStartupOutcome ==
    \A w \in Workers :
        Done(w, "/api/status") =>
            /\ req[w].fetches = <<>>
            /\ req[w].resp.code = 200
            /\ req[w].resp.db_password = StartupFetched("db-password")
            /\ req[w].resp.api_key = StartupFetched("api-key")

\* C2 witness: the startup fetch of db-password failed, a GET / has since read
\* it successfully, and a status response reports false for it.
C2_Witness ==
    /\ ~StartupFetched("db-password")
    /\ \E w, o \in Workers :
         /\ Done(w, "/api/status")
         /\ req[w].resp.db_password = FALSE
         /\ Done(o, "/")
         /\ FallbackReached(o, "db-password")
         /\ req[o].resp.db_loaded = "yes"

\* C3: get_secret lets no exception out, for every name and every thing the
\* lookup can do; it returns a value exactly when a project id is configured
\* and the store returned a decodable payload, and None otherwise; no import
\* dies in initialize_secrets and no request is answered 500.
C3_GetSecretNeverRaises ==
    /\ \A name \in SecretNames, answer \in Answers :
         LET got == get_secret(name, answer) IN
         /\ ~got.raised
         /\ got.ret # None <=>
              (ProjectConfigured /\ answer.kind = "payload" /\ decode(answer.data).ok)
         /\ got.ret # None => got.ret = Str(decode(answer.data).text)
    /\ phase # "init_error"
    /\ \A w \in Workers : req[w].resp.code # 500

\* C3 witness: a startup lookup reached the store and failed, the server is
\* up all the same, and a GET / whose fallback read gave nothing was answered 200.
C3_Witness ==
    /\ phase = "serving"
    /\ \E i \in 1..Len(startup) : startup[i].reached /\ ~startup[i].fetched
    /\ \E w \in Workers :
         /\ Done(w, "/")
         /\ FallbackReached(w, "api-key")
         /\ req[w].resp.api_loaded = "no"
         /\ req[w].resp.code = 200

\* What C4 promises of a process: no fetch reaches the store, both slots are
\* absent after initialization, every GET / reports no for both secrets.
NothingFetched ==
    /\ \A i \in 1..Len(startup) : ~startup[i].reached
    /\ \A w \in Workers : \A i \in 1..Len(req[w].fetches) : ~req[w].fetches[i].reached
    /\ Initialized => (DB_PASSWORD = None /\ API_KEY = None)
    /\ \A w \in Workers :
         Done(w, "/") =>
             req[w].resp.db_loaded = "no" /\ req[w].resp.api_loaded = "no"

\* C4 as stated: with GCP_PROJECT_ID unset no fetch reaches the store, both
\* slots are absent and GET / reports no for both.
C4_Original == environ.GCP_PROJECT_ID = None => NothingFetched

\* C4 amended: with neither GCP_PROJECT_ID nor GOOGLE_CLOUD_PROJECT set to a
\* non-empty value no fetch reaches the store, both slots are absent and
\* GET / reports no for both.
C4_NoProjectNoFetch == ~ProjectConfigured => NothingFetched

\* C4 witness: no project id, and a GET / that tried both secrets answered
\* no for both.
C4_Witness ==
    /\ ~ProjectConfigured
    /\ \E w \in Workers :
         /\ Done(w, "/")
         /\ Len(req[w].fetches) = 2
         /\ req[w].resp.db_loaded = "no"
         /\ req[w].resp.api_loaded = "no"

\* C5 as stated: no request makes more than one call to the secret store.
C5_Original ==
    \A w \in Workers : Cardinality(DOMAIN ReachedNames(req[w].fetches)) <= 1

\* C5 amended: no request makes more than one call to the secret store for
\* the same secret name, so at most two, and only GET / makes any.
C5_OneCallPerName ==
    \A w \in Workers :
        /\ \A name \in SecretNames : ReachedCount(req[w].fetches, name) <= 1
        /\ Cardinality(DOMAIN ReachedNames(req[w].fetches)) <= Cardinality(SecretNames)
        /\ req[w].route # "/" => req[w].fetches = <<>>

\* C5 witness: a GET / that called the store for both names.
C5_Witness ==
    \E w \in Workers :
        /\ Done(w, "/")
        /\ ReachedCount(req[w].fetches, "db-password") = 1
        /\ ReachedCount(req[w].fetches, "api-key") = 1

\* C6: GET /health is always answerable and is answered 200 "healthy", with
\* no call to the secret store and no read of a cache slot.
C6_HealthAlwaysHealthy ==
    \A w \in Workers :
        /\ (req[w].route = "/health" /\ req[w].pc = "dispatched") =>
               ENABLED health_check(w)
        /\ Done(w, "/health") =>
               /\ req[w].resp.code = 200
               /\ req[w].resp.status = "healthy"
               /\ req[w].fetches = <<>>
               /\ req[w].reads = {}

\* C6 witness: GET /health answered while both slots are absent because the
\* store failed both startup lookups.
C6_Witness ==
    /\ DB_PASSWORD = None
    /\ API_KEY = None
    /\ Len(startup) = 2
    /\ \A i \in 1..Len(startup) : startup[i].reached /\ ~startup[i].fetched
    /\ \E w \in Workers : Done(w, "/health")

\* C7 (safety part): a GET / answered while both slots are absent made its
\* own two attempts, db-password then api-key, and a request inside hello can
\* always take its next step, whatever the other workers are doing.
C7_OwnAttempts ==
    \A w \in Workers :
        /\ (Done(w, "/") /\ DB_PASSWORD = None /\ API_KEY = None) =>
               /\ Len(req[w].fetches) = 2
               /\ req[w].fetches[1].name = "db-password"
               /\ req[w].fetches[2].name = "api-key"
               /\ req[w].resp.code = 200
        /\ InHello(w) => ENABLED (hello_db(w) \/ hello_api(w) \/ hello_return(w))

\* C7: concurrent GET / requests on a cold cache each make their own fallback
\* attempts, none waits on another, and under fair scheduling each is answered.
C7_ColdConcurrentHello ==
    /\ []C7_OwnAttempts
    /\ \A w \in Workers : InHello(w) ~> Done(w, "/")

\* C7 witness: two GET / requests in flight at once on a cold cache, each
\* with attempts of its own.
C7_Witness ==
    /\ DB_PASSWORD = None
    /\ API_KEY = None
    /\ \E w, o \in Workers :
         /\ w # o
         /\ InHello(w) /\ Len(req[w].fetches) = 2
         /\ InHello(o) /\ Len(req[o].fetches) = 1

\* C8: initialize_secrets runs once, before any request: it asks for
\* db-password then api-key, once each, each slot holds what its call
\* returned, and no request is taken before the server starts.
C8_InitOnceBeforeRequests ==
    /\ (\E w \in Workers : req[w].pc # "idle") => phase = "serving"
    /\ Len(startup) <= 2
    /\ Initialized =>
         /\ Len(startup) = 2
         /\ startup[1].name = "db-password"
         /\ startup[2].name = "api-key"
         /\ DB_PASSWORD = startup[1].ret
         /\ API_KEY = startup[2].ret
         /\ (DB_PASSWORD # None) = startup[1].fetched
         /\ (API_KEY # None) = startup[2].fetched

\* C8 witness: a request answered after an initialization that got
\* db-password and failed to get api-key.
C8_Witness ==
    /\ phase = "serving"
    /\ StartupFetched("db-password")
    /\ ~StartupFetched("api-key")
    /\ API_KEY = None
    /\ \E w \in Workers : Done(w, "/api/status")

\* C9 as stated: for a slot that is not absent (status reports true) GET /
\* makes no read of the store and reports yes; for an absent slot it makes
\* one fallback read and reports yes exactly when that read got a value.
C9_Original ==
    \A w \in Workers :
        Done(w, "/") =>
            /\ req[w].resp.code = 200
            /\ DB_PASSWORD # None =>
                 /\ ReachedCount(req[w].fetches, "db-password") = 0
                 /\ req[w].resp.db_loaded = "yes"
            /\ API_KEY # None =>
                 /\ ReachedCount(req[w].fetches, "api-key") = 0
                 /\ req[w].resp.api_loaded = "yes"

\* C10 as stated: the project_id of a status response is the project id that
\* get_secret uses, and is "not-set" exactly when get_secret finds none.
C10_Original ==
    \A w \in Workers :
        Done(w, "/api/status") =>
            LET used == Or(environ.GCP_PROJECT_ID, environ.GOOGLE_CLOUD_PROJECT) IN
            /\ (req[w].resp.project_id = Str("not-set")) <=> ~Truthy(used)
            /\ Truthy(used) => req[w].resp.project_id = used

====
